---- MODULE Spec2Model ----
(***************************************************************************)
(* A model of spawn2 (src/src/index.ts): spawn, wait, communicate, execute *)
(* and makePipe, together with the operating-system child they drive and   *)
(* the streams on either side of a bridge, and                             *)
(* the event loop that delivers the child's 'exit' event and its stream    *)
(* events.                                                                 *)
(*                                                                         *)
(* JavaScript values are written as strings: "undefined", "null", "true",  *)
(* "false", the numbers "0" and "1", and ordinary strings.  Objects are    *)
(* functions from key to value; an absent key reads as "undefined".  Text  *)
(* (a child's output) is a sequence of one-character chunks.               *)
(***************************************************************************)
EXTENDS Integers, Sequences, FiniteSets, TLC

(***************************************************************************)
(* Bounds of the model.                                                    *)
(***************************************************************************)
\* how many option keys one call sets
MaxOptKeys == 1
\* how many chunks a child writes to its stdout of its own
MaxOut == 2
\* how many chunks a child writes to its stderr
MaxErr == 1
\* how many times the caller calls wait() itself
MaxWaits == 2
\* how many chunks an OS pipe holds before the writer blocks
PipeCap == 1
\* how many chunks the readable side of a bridge buffers before push() returns false
BridgeHwm == 1

(***************************************************************************)
(* JavaScript values.                                                      *)
(***************************************************************************)
\* ToBoolean: false, null, undefined, 0 and the empty string are falsy
JsFalsy == {"false", "null", "undefined", "0", ""}

Truthy(v) == v \notin JsFalsy

\* o.k : reading a key the object does not have gives undefined
Get(o, k) == IF k \in DOMAIN o THEN o[k] ELSE "undefined"

\* { ...a, ...b }
Spread(a, b) == [k \in DOMAIN a \cup DOMAIN b |-> IF k \in DOMAIN b THEN b[k] ELSE a[k]]

EmptyObject == <<>>

\* the characters String.prototype.trim removes
Whitespace == {" ", "\n"}

\* the characters a child writes
Chars == {"H", "\n"}

RECURSIVE TrimStart(_)
TrimStart(s) ==
    IF s # <<>> /\ Head(s) \in Whitespace THEN TrimStart(Tail(s)) ELSE s

RECURSIVE TrimEnd(_)
TrimEnd(s) ==
    IF s # <<>> /\ s[Len(s)] \in Whitespace THEN TrimEnd(SubSeq(s, 1, Len(s) - 1)) ELSE s

\* s.trim()
Trim(s) == TrimEnd(TrimStart(s))

(***************************************************************************)
(* The arguments a caller may pass.                                        *)
(***************************************************************************)
\* the commands: "cat" copies its stdin to its stdout and ends at end-of-input;
\* "prog" ignores its stdin, writes what it likes and ends when it likes
Commands == {"cat", "prog"}

\* values for the stdin argument of communicate() / the stdin option of
\* execute(): null, or text to deliver
StdinValues == {"null", "", "ab"}

\* the chunks of a stdin source
StdinChunks(v) ==
    IF v = "ab" THEN <<"a", "b">> ELSE <<>>

\* values for the stdout / stderr option of execute(): a descriptor number,
\* a stream, a stdio keyword, or null
SinkValues == {"null", "0", "1", "ignore", "[stream]"}

SpawnKeys == {"checkExitCode", "checkSignalCode", "encoding", "trimOutput", "stdio"}

ExecuteKeys == SpawnKeys \cup {"stdin", "stdout", "stderr"}

OptionValues(k) ==
    CASE k \in {"checkExitCode", "checkSignalCode", "trimOutput"} -> {"true", "false"}
      [] k = "encoding" -> {"utf-8", "null"}
      [] k = "stdio" -> {<<"pipe", "pipe", "pipe">>, <<"ignore", "pipe", "ignore">>,
                         <<"inherit", "inherit", "inherit">>}
      [] k = "stdin" -> StdinValues
      [] k \in {"stdout", "stderr"} -> SinkValues

RECURSIVE Objects(_, _)
\* every object with at most n keys, all among S
Objects(S, n) ==
    IF S = {} \/ n = 0 THEN {EmptyObject}
    ELSE LET k == CHOOSE x \in S : TRUE
             rest == Objects(S \ {k}, n)
             fewer == Objects(S \ {k}, n - 1)
         IN  rest \cup {(k :> v) @@ o : o \in fewer, v \in OptionValues(k)}

\* the options argument: not given at all, or an object
OptionArgs(keys, n) ==
    {[given |-> FALSE, obj |-> EmptyObject]} \cup
    {[given |-> TRUE, obj |-> o] : o \in Objects(keys, n)}

(***************************************************************************)
(* The state.                                                              *)
(***************************************************************************)
VARIABLES
    call,           \* the call that created the process: spawn or execute, and its arguments
    cp,             \* the ChildProcess handle spawn() returned
    os,             \* the operating-system child: running or exited, and what it wrote
    pipes,          \* the bytes in flight between the child and the parent
    exitListeners,  \* the listeners on the 'exit' event of cp._cp, in registration order
    waits,          \* the promises wait() returned, in call order
    comm,           \* the communicate() call: its four tasks and its own promise
    bridge          \* the stream makePipe() returned, and the streams on either side of it

vars == <<call, cp, os, pipes, exitListeners, waits, comm, bridge>>

NoCall == [fn |-> "none", command |-> "none", options |-> [given |-> FALSE, obj |-> EmptyObject]]

NoCp == [command |-> "none"]

Spawned == cp.command # "none"

NoValue == [type |-> "none", data |-> <<>>]

NoResult == [stdout |-> NoValue, stderr |-> NoValue, exitCode |-> "undefined", signalCode |-> "undefined"]

NoError == [name |-> "none", message |-> "", exitCode |-> "null", signalCode |-> "null", isAlive |-> FALSE]

StreamError == [name |-> "StreamError", message |-> "", exitCode |-> "null", signalCode |-> "null", isAlive |-> FALSE]

NoTasks == [stdin |-> "none", stdout |-> "none", stderr |-> "none"]

NoBufs == [stdout |-> <<>>, stderr |-> <<>>]

\* no makePipe() yet
NoBridge ==
    [state |-> "none",          \* "failed": the constructor threw; "open": it returned
     thrown |-> "",             \* the message of the Error the constructor threw
     listeners |-> {},          \* the stream events the bridge listens to
     ctorWait |-> 0,            \* the wait() of the constructor
     endWait |-> 0,             \* the wait() made on the 'end' of cp.stdout
     flowing |-> FALSE,         \* cp.stdout is flowing (not paused)
     readable |-> <<>>,         \* the chunks pushed and not yet read downstream
     pushedNull |-> 0,          \* how many times push(null) was called
     errorsAtEnd |-> 0,         \* how many 'error' events had been emitted when it was
     errors |-> <<>>,           \* the 'error' events the bridge emitted
     raised |-> {},             \* the streams of cp that raised an error
     written |-> 0,             \* the chunks upstream has written
     writable |-> <<>>,         \* the chunks written and not yet handed to _write
     inflight |-> <<>>,         \* the chunk handed to cp.stdin.write, callback pending
     acked |-> 0,               \* the write callbacks that have fired
     finishing |-> FALSE,       \* upstream has called end()
     downstream |-> "paused",   \* the consumer: paused (saturated) or flowing
     delivered |-> <<>>,        \* the chunks the consumer has received
     downstreamEnded |-> FALSE] \* the consumer has received the bridge's 'end'

Init ==
    /\ call = NoCall
    /\ cp = NoCp
    /\ os = [state |-> "none", exitCode |-> "null", signalCode |-> "null", wrote |-> 0, wroteErr |-> 0]
    /\ pipes = [stdin |-> <<>>, stdinEnded |-> FALSE, stdout |-> <<>>, stderr |-> <<>>]
    /\ exitListeners = <<>>
    /\ waits = <<>>
    /\ comm = [state |-> "idle", stdin |-> "undefined", waitId |-> 0, task |-> NoTasks,
               sent |-> 0, ended |-> <<>>, buf |-> NoBufs, result |-> NoResult,
               error |-> NoError]
    /\ bridge = NoBridge

(***************************************************************************)
(* spawn                                                                   *)
(***************************************************************************)
\* const defaultOptions = { ... }
defaultOptions(options) ==
    [checkExitCode |-> "true",
     checkSignalCode |-> "true",
     encoding |-> "utf-8",
     trimOutput |-> IF options.given /\ Get(options.obj, "encoding") # "null"
                    THEN "true" ELSE "false"]

\* const mergedOptions = { ...defaultOptions, ...(options || {}) }
mergedOptions(options) ==
    Spread(defaultOptions(options), IF options.given THEN options.obj ELSE EmptyObject)

\* what child_process.spawn connects to slot i (1 stdin, 2 stdout, 3 stderr)
StdioSlot(opts, i) == IF "stdio" \in DOMAIN opts THEN opts.stdio[i] ELSE "pipe"

\* nodeCp.stdin / stdout / stderr: a stream for a piped slot, else null
NodeStream(opts, i) ==
    IF StdioSlot(opts, i) \in {"pipe", "null", "undefined"} THEN "[stream]" ELSE "null"

\* const cp = { ... }
NewCp(command, options) ==
    LET merged == mergedOptions(options)
    IN  [command |-> command,
         exitCode |-> "null",
         isAlive |-> TRUE,
         options |-> merged,
         signalCode |-> "null",
         stderr |-> NodeStream(merged, 3),
         stdin |-> NodeStream(merged, 1),
         stdout |-> NodeStream(merged, 2)]

\* a handler that forgets to store the exit code
ExitHandlerDropsCode(h, exitCode, signalCode) ==
    [h EXCEPT !.isAlive = FALSE, !.signalCode = signalCode]

\* a handler that forgets to clear isAlive
ExitHandlerKeepsAlive(h, exitCode, signalCode) ==
    [h EXCEPT !.exitCode = exitCode, !.signalCode = signalCode]

\* cp._cp.on("exit", (exitCode, signalCode) => { ... }) : the body of the handler
ExitHandler(h, exitCode, signalCode) ==
    [h EXCEPT !.isAlive = FALSE, !.exitCode = exitCode, !.signalCode = signalCode]

SpawnListener == [kind |-> "spawn", id |-> 0]

(***************************************************************************)
(* wait                                                                    *)
(***************************************************************************)
\* new ChildProcessError(cp): the handle's fields, as read when the error is made
ChildProcessError(h) ==
    [name |-> "ChildProcessError",
     message |-> IF Truthy(h.exitCode) THEN "exit code"
                 ELSE IF Truthy(h.signalCode) THEN "signal"
                 ELSE "failed",
     exitCode |-> h.exitCode,
     signalCode |-> h.signalCode,
     isAlive |-> h.isAlive]

\* a check that takes every exit code, 0 included, for a failure
PolicyFailsOnAnyCode(h, exitCode, signalCode) ==
    \/ exitCode # "null" /\ Truthy(h.options.checkExitCode)
    \/ Truthy(signalCode) /\ Truthy(h.options.checkSignalCode)

\* a check that forgets the signal
PolicyFailsIgnoringSignal(h, exitCode, signalCode) ==
    Truthy(exitCode) /\ Truthy(h.options.checkExitCode)

\* the condition under which cb rejects
PolicyFails(h, exitCode, signalCode) ==
    \/ Truthy(exitCode) /\ Truthy(h.options.checkExitCode)
    \/ Truthy(signalCode) /\ Truthy(h.options.checkSignalCode)

\* const cb = (exitCode, signalCode) => { ... } : the promise of `by` as cb settles it
cb(h, by, exitCode, signalCode) ==
    IF PolicyFails(h, exitCode, signalCode)
    THEN [by |-> by, state |-> "rejected", exitCode |-> "undefined", signalCode |-> "undefined",
          error |-> ChildProcessError(h)]
    ELSE [by |-> by, state |-> "fulfilled", exitCode |-> exitCode, signalCode |-> signalCode,
          error |-> NoError]

PendingWait(by) ==
    [by |-> by, state |-> "pending", exitCode |-> "undefined", signalCode |-> "undefined",
     error |-> NoError]

\* a wait that subscribes to 'exit' whatever the handle says
WaitAlwaysRegisters(h) == TRUE

\* whether wait() registers cb on the 'exit' event rather than calling it at once
WaitRegisters(h) == h.isAlive

\* wait(cp), called by `by`: the promises and the listeners after the call
WaitCall(h, ws, ls, by) ==
    IF WaitRegisters(h)
    THEN [waits |-> Append(ws, PendingWait(by)),
          listeners |-> Append(ls, [kind |-> "wait", id |-> Len(ws) + 1])]
    ELSE [waits |-> Append(ws, cb(h, by, h.exitCode, h.signalCode)),
          listeners |-> ls]

\* a wait callback that clears the exit code it was given from the handle
RunListenerWritesHandle(l, st, exitCode, signalCode) ==
    IF l.kind = "spawn"
    THEN [st EXCEPT !.cp = ExitHandler(st.cp, exitCode, signalCode)]
    ELSE [st EXCEPT !.waits[l.id] = cb(st.cp, st.waits[l.id].by, exitCode, signalCode),
                    !.cp.exitCode = "null"]

\* one listener of the 'exit' event, run with the event's arguments
RunListener(l, st, exitCode, signalCode) ==
    IF l.kind = "spawn"
    THEN [st EXCEPT !.cp = ExitHandler(st.cp, exitCode, signalCode)]
    ELSE [st EXCEPT !.waits[l.id] = cb(st.cp, st.waits[l.id].by, exitCode, signalCode)]

RECURSIVE EmitLastFirst(_, _, _, _)
\* an emit that runs the listeners in the reverse of their registration order
EmitLastFirst(ls, st, exitCode, signalCode) ==
    IF ls = <<>> THEN st
    ELSE RunListener(Head(ls), EmitLastFirst(Tail(ls), st, exitCode, signalCode),
                     exitCode, signalCode)

RECURSIVE Emit(_, _, _, _)
\* emit('exit', exitCode, signalCode): the listeners run in registration order
Emit(ls, st, exitCode, signalCode) ==
    IF ls = <<>> THEN st
    ELSE Emit(Tail(ls), RunListener(Head(ls), st, exitCode, signalCode), exitCode, signalCode)

(***************************************************************************)
(* communicate                                                             *)
(***************************************************************************)
\* maybeTrim(s, cp)
maybeTrim(v, h) ==
    IF v.type = "string" /\ Truthy(h.options.trimOutput)
    THEN [v EXCEPT !.data = Trim(v.data)]
    ELSE v

\* what a finished drain yields: getStream(...) a string, getStream.buffer(...) a Buffer
Drained(h, data) ==
    IF Truthy(h.options.encoding)
    THEN [type |-> "string", data |-> data]
    ELSE [type |-> "buffer", data |-> data]

\* the value of stdoutPromise / stderrPromise once fulfilled
StreamValue(h, c, s) ==
    IF h[s] = "null" THEN [type |-> "null", data |-> <<>>] ELSE Drained(h, c.buf[s])

\* the four promises handed to Promise.all, in the order of the array
Joined(c, ws) == <<c.task.stdin, ws[c.waitId].state, c.task.stdout, c.task.stderr>>

\* a join that looks at the status promise alone
JoinReadyOnStatus(states) == states[2] = "fulfilled"

\* Promise.all fulfils when every promise of the array has
JoinReady(states) == \A i \in DOMAIN states : states[i] = "fulfilled"

\* the error of the promise that rejected
JoinError(c, ws) ==
    IF ws[c.waitId].state = "rejected" THEN ws[c.waitId].error ELSE StreamError

\* a join that holds a rejection back until both drains have settled
JoinAfterDrains(c, ws, h) ==
    LET states == Joined(c, ws)
    IN  IF c.state # "pending" \/ c.task.stdout = "pending" \/ c.task.stderr = "pending" THEN c
        ELSE IF \E i \in DOMAIN states : states[i] = "rejected"
        THEN [c EXCEPT !.state = "rejected", !.error = JoinError(c, ws)]
        ELSE IF JoinReady(states)
        THEN [c EXCEPT !.state = "fulfilled",
                       !.result = [stdout |-> maybeTrim(StreamValue(h, c, "stdout"), h),
                                   stderr |-> maybeTrim(StreamValue(h, c, "stderr"), h),
                                   exitCode |-> ws[c.waitId].exitCode,
                                   signalCode |-> ws[c.waitId].signalCode]]
        ELSE c

\* a join that looks at the status promise alone once the streams are done
\* with, and takes a failed stream for a finished one
JoinOnStatusOnly(c, ws, h) ==
    LET states == Joined(c, ws)
    IN  IF c.state # "pending" THEN c
        ELSE IF states[2] = "rejected"
        THEN [c EXCEPT !.state = "rejected", !.error = JoinError(c, ws)]
        ELSE IF \A i \in DOMAIN states : states[i] \in {"fulfilled", "rejected"}
        THEN [c EXCEPT !.state = "fulfilled",
                       !.result = [stdout |-> maybeTrim(StreamValue(h, c, "stdout"), h),
                                   stderr |-> maybeTrim(StreamValue(h, c, "stderr"), h),
                                   exitCode |-> ws[c.waitId].exitCode,
                                   signalCode |-> ws[c.waitId].signalCode]]
        ELSE c

\* the await on Promise.all and the return: communicate's own promise, settled
\* as soon as one of the four rejects or all four are fulfilled
Join(c, ws, h) ==
    LET states == Joined(c, ws)
    IN  IF c.state # "pending" THEN c
        ELSE IF \E i \in DOMAIN states : states[i] = "rejected"
        THEN [c EXCEPT !.state = "rejected", !.error = JoinError(c, ws)]
        ELSE IF JoinReady(states)
        THEN [c EXCEPT !.state = "fulfilled",
                       !.result = [stdout |-> maybeTrim(StreamValue(h, c, "stdout"), h),
                                   stderr |-> maybeTrim(StreamValue(h, c, "stderr"), h),
                                   exitCode |-> ws[c.waitId].exitCode,
                                   signalCode |-> ws[c.waitId].signalCode]]
        ELSE c

NoSource(stdin) == stdin = "undefined" \/ stdin = "null"

\* a communicate that leaves cp.stdin open when it has nothing to send
EndsStdinNever(h, stdin) == FALSE

\* a communicate that ends cp.stdin at once whether or not it has a source
EndsStdinAlways(h, stdin) == h.stdin # "null"

\* if((stdin === undefined || stdin === null) && cp.stdin !== null) cp.stdin.end()
EndsStdinAtOnce(h, stdin) == NoSource(stdin) /\ h.stdin # "null"

\* communicate(cp, stdin), up to its await: the state after the call
CommunicateCall(h, stdin, c, ws, ls, pp) ==
    LET w == WaitCall(h, ws, ls, "communicate")
        started ==
            [c EXCEPT !.state = "pending",
                      !.stdin = stdin,
                      !.waitId = Len(ws) + 1,
                      !.ended = IF EndsStdinAtOnce(h, stdin) THEN <<"direct">> ELSE <<>>,
                      !.task = [stdin |-> IF NoSource(stdin) \/ h.stdin = "null"
                                          THEN "fulfilled" ELSE "pending",
                                stdout |-> IF h.stdout = "null" THEN "fulfilled" ELSE "pending",
                                stderr |-> IF h.stderr = "null" THEN "fulfilled" ELSE "pending"]]
    IN  [comm |-> Join(started, w.waits, h),
         waits |-> w.waits,
         listeners |-> w.listeners,
         pipes |-> IF EndsStdinAtOnce(h, stdin) THEN [pp EXCEPT !.stdinEnded = TRUE] ELSE pp]

(***************************************************************************)
(* execute                                                                 *)
(***************************************************************************)
\* options && options.k
OptionOf(options, k) == IF options.given THEN Get(options.obj, k) ELSE "undefined"

\* (options && options.stdout) || "pipe"
SinkOrPipe(options, k) ==
    IF Truthy(OptionOf(options, k)) THEN OptionOf(options, k) ELSE "pipe"

\* const stdio = [ ... ]
ExecuteStdio(options) ==
    <<IF options.given /\ Get(options.obj, "stdin") \notin {"undefined", "null"}
      THEN "pipe" ELSE "ignore",
      SinkOrPipe(options, "stdout"),
      SinkOrPipe(options, "stderr")>>

\* { stdio, ...options }
ExecuteSpawnOptions(options) ==
    [given |-> TRUE,
     obj |-> Spread([stdio |-> ExecuteStdio(options)],
                    IF options.given THEN options.obj ELSE EmptyObject)]

(***************************************************************************)
(* makePipe: class ChildProcessTransform                                   *)
(***************************************************************************)
\* the chunks the stage before the bridge writes into it
Upstream == <<"a", "b">>

\* the error of a failed read from cp.stdout
StdoutFailure == [name |-> "StdoutError", message |-> "", exitCode |-> "null", signalCode |-> "null", isAlive |-> FALSE]

\* the error of a write to cp.stdin after the child has gone
StdinFailure == [name |-> "EPIPE", message |-> "", exitCode |-> "null", signalCode |-> "null", isAlive |-> FALSE]

\* the two checks of the constructor: the message of the Error thrown, "" if none
ConstructorThrows(h) ==
    IF h.stdout = "null" THEN "stdout is not readable, cannot create transform stream"
    ELSE IF h.stdin = "null" THEN "stdout is not writable, cannot create transform stream"
    ELSE ""

\* this.stdout.on("error" / "end" / "data", ...) and this.stdin.on("error", ...)
BridgeListeners == {"stdout.error", "stdout.end", "stdin.error", "stdout.data"}

\* promise i is settled by the step that takes the promises from `before` to `after`
SettledNow(i, before, after) ==
    /\ i \in DOMAIN after
    /\ after[i].state # "pending"
    /\ i \in DOMAIN before => before[i].state = "pending"

\* a bridge that reports every termination, clean or not
StatusErrorAlways(b, before, after) ==
    IF SettledNow(b.ctorWait, before, after)
    THEN [b EXCEPT !.errors = Append(@, ChildProcessError(cp))]
    ELSE b

\* wait(cp).catch((err) => this.emit("error", err)) : the reaction to the
\* constructor's wait
StatusError(b, before, after) ==
    IF SettledNow(b.ctorWait, before, after) /\ after[b.ctorWait].state = "rejected"
    THEN [b EXCEPT !.errors = Append(@, after[b.ctorWait].error)]
    ELSE b

\* an end-of-stream that a failed status holds back: .then in place of .finally
EndOfStreamOnFulfilled(b, before, after) ==
    SettledNow(b.endWait, before, after) /\ after[b.endWait].state = "fulfilled"

\* wait(cp).catch((e) => e).finally(...) : the wait made at 'end' has settled,
\* either way
EndOfStreamDue(b, before, after) == SettledNow(b.endWait, before, after)

\* ... .finally(() => this.push(null))
PushNull(b, before, after) ==
    IF EndOfStreamDue(b, before, after)
    THEN [b EXCEPT !.pushedNull = @ + 1, !.errorsAtEnd = Len(b.errors)]
    ELSE b

\* reactions in the other order: the end-of-stream first, the status after it
BridgeReactEndFirst(b, before, after) == StatusError(PushNull(b, before, after), before, after)

\* the promise reactions of the bridge to the waits a step settles: the
\* constructor's wait was made first and its reaction runs first
BridgeReact(b, before, after) == PushNull(StatusError(b, before, after), before, after)

\* this.push(chunk): the bridge after the push and what push returned.  A chunk
\* pushed while the consumer is flowing and nothing is buffered goes straight
\* to the consumer.
Push(b, chunk) ==
    IF b.downstream = "flowing" /\ b.readable = <<>>
    THEN [bridge |-> [b EXCEPT !.delivered = Append(@, chunk)], more |-> TRUE]
    ELSE [bridge |-> [b EXCEPT !.readable = Append(@, chunk)],
          more |-> Len(b.readable) + 1 < BridgeHwm]

\* a 'data' handler that never pauses
OnDataNeverPauses(b, chunk) == Push(b, chunk).bridge

\* a 'data' handler that drops the chunk push() refused
OnDataDropsRefused(b, chunk) ==
    IF Push(b, chunk).more THEN Push(b, chunk).bridge ELSE [b EXCEPT !.flowing = FALSE]

\* this.stdout.on("data", (chunk) => { if(!this.push(chunk)) this.stdout.pause(); })
OnData(b, chunk) ==
    IF Push(b, chunk).more THEN Push(b, chunk).bridge
    ELSE [Push(b, chunk).bridge EXCEPT !.flowing = FALSE]

\* _read(): this.stdout.resume()
BridgeRead(b) == [b EXCEPT !.flowing = TRUE]

\* Readable.read(): _read is called when the buffer, less the n chunks being
\* taken, is under the high-water mark and the end has not been pushed
ReadCallsRead(b, n) == b.pushedNull = 0 /\ Len(b.readable) - n < BridgeHwm

\* a _write that calls back before cp.stdin has taken the chunk
BridgeWriteAcksAtOnce(b, chunk) == [b EXCEPT !.inflight = <<chunk>>, !.acked = @ + 1]

\* _write(chunk, encoding, cb): this.stdin.write(chunk, encoding, cb)
BridgeWrite(b, chunk) == [b EXCEPT !.inflight = <<chunk>>]

\* Writable.write(chunk): handed to _write at once when no write is in flight,
\* else kept until the write in flight has called back
WritableWrite(b, chunk) ==
    IF b.inflight = <<>>
    THEN [BridgeWrite(b, chunk) EXCEPT !.written = @ + 1]
    ELSE [b EXCEPT !.writable = Append(@, chunk), !.written = @ + 1]

\* Writable calls _final once end() was called and every write has called
\* back; _final(cb): this.stdin.end(cb)
FinalDue(b, h) == b.finishing /\ b.inflight = <<>> /\ b.writable = <<>>

\* a bridge that does not listen to the errors of cp.stdin
OnStreamErrorStdoutOnly(b, s, err) ==
    IF s = "stdout"
    THEN [b EXCEPT !.raised = @ \cup {s}, !.errors = Append(@, err)]
    ELSE [b EXCEPT !.raised = @ \cup {s}]

\* this.stdout.on("error", (err) => this.emit("error", err)), and the same for
\* this.stdin: stream s of cp raises err
OnStreamError(b, s, err) ==
    IF (IF s = "stdout" THEN "stdout.error" ELSE "stdin.error") \in b.listeners
    THEN [b EXCEPT !.raised = @ \cup {s}, !.errors = Append(@, err)]
    ELSE [b EXCEPT !.raised = @ \cup {s}]

\* a constructor that subscribes before it checks the streams
ConstructSubscribesFirst(h, b, ws, ls) ==
    LET w == WaitCall(h, ws, ls, "makePipe")
        opened == [b EXCEPT !.state = IF ConstructorThrows(h) # "" THEN "failed" ELSE "open",
                            !.thrown = ConstructorThrows(h),
                            !.ctorWait = Len(ws) + 1,
                            !.listeners = BridgeListeners,
                            !.flowing = TRUE]
    IN  [bridge |-> BridgeReact(opened, ws, w.waits), waits |-> w.waits, listeners |-> w.listeners]

\* new ChildProcessTransform(cp): the bridge, the promises and the 'exit'
\* listeners after the constructor
Construct(h, b, ws, ls) ==
    IF ConstructorThrows(h) # ""
    THEN [bridge |-> [b EXCEPT !.state = "failed", !.thrown = ConstructorThrows(h)],
          waits |-> ws, listeners |-> ls]
    ELSE LET w == WaitCall(h, ws, ls, "makePipe")
             opened == [b EXCEPT !.state = "open",
                                 !.ctorWait = Len(ws) + 1,
                                 !.listeners = BridgeListeners,
                                 !.flowing = TRUE]
         IN  [bridge |-> BridgeReact(opened, ws, w.waits), waits |-> w.waits, listeners |-> w.listeners]

(***************************************************************************)
(* The calls of the program's user.                                        *)
(***************************************************************************)
RunningChild == [state |-> "running", exitCode |-> "null", signalCode |-> "null", wrote |-> 0, wroteErr |-> 0]

\* spawn(command, options)
SpawnWith(commands, optionArgs) ==
    /\ ~Spawned
    /\ \E command \in commands, options \in optionArgs :
        /\ call' = [fn |-> "spawn", command |-> command, options |-> options]
        /\ cp' = NewCp(command, options)
        /\ exitListeners' = <<SpawnListener>>
    /\ os' = RunningChild
    /\ UNCHANGED <<pipes, waits, comm, bridge>>

\* execute(command, options): spawn, and communicate's synchronous part
ExecuteWith(commands, optionArgs) ==
    /\ ~Spawned
    /\ \E command \in commands, options \in optionArgs :
        LET h == NewCp(command, ExecuteSpawnOptions(options))
            r == CommunicateCall(h, OptionOf(options, "stdin"), comm, waits, <<SpawnListener>>, pipes)
        IN  /\ call' = [fn |-> "execute", command |-> command, options |-> options]
            /\ cp' = h
            /\ comm' = r.comm
            /\ waits' = r.waits
            /\ exitListeners' = r.listeners
            /\ pipes' = r.pipes
    /\ os' = RunningChild
    /\ UNCHANGED bridge

\* communicate(cp, stdin) on a handle spawn() returned
CommunicateWith(stdins) ==
    /\ Spawned
    /\ comm.state = "idle"
    /\ bridge.state # "open"
    /\ \E stdin \in stdins :
        LET r == CommunicateCall(cp, stdin, comm, waits, exitListeners, pipes)
        IN  /\ comm' = r.comm
            /\ waits' = r.waits
            /\ exitListeners' = r.listeners
            /\ pipes' = r.pipes
    /\ UNCHANGED <<call, cp, os, bridge>>

UserWaits == {i \in DOMAIN waits : waits[i].by = "user"}

\* wait(cp), called by the user
Wait ==
    /\ Spawned
    /\ Cardinality(UserWaits) < MaxWaits
    /\ LET r == WaitCall(cp, waits, exitListeners, "user")
       IN  /\ waits' = r.waits
           /\ exitListeners' = r.listeners
    /\ UNCHANGED <<call, cp, os, pipes, comm, bridge>>

(***************************************************************************)
(* The child, as the operating system runs it.                             *)
(***************************************************************************)
\* the child's end of slot s is a pipe to the parent
Piped(s) == cp[s] # "null"

\* a write to slot s does not block
HasRoom(s) == ~Piped(s) \/ Len(pipes[s]) < PipeCap

\* what the child's write of chunk c to slot s leaves in the pipes
ChildWrites(s, c, pp) == IF Piped(s) THEN [pp EXCEPT ![s] = Append(@, c)] ELSE pp

\* the child reads end-of-input from its stdin
StdinAtEof ==
    \/ StdioSlot(cp.options, 1) = "ignore"
    \/ Piped("stdin") /\ pipes.stdinEnded /\ pipes.stdin = <<>>

\* a program writes a chunk to its stdout
ChildProduce ==
    /\ os.state = "running"
    /\ cp.command = "prog"
    /\ os.wrote < MaxOut
    /\ HasRoom("stdout")
    /\ \E c \in Chars : pipes' = ChildWrites("stdout", c, pipes)
    /\ os' = [os EXCEPT !.wrote = @ + 1]
    /\ UNCHANGED <<call, cp, exitListeners, waits, comm, bridge>>

\* cat copies a chunk of its stdin to its stdout
ChildEcho ==
    /\ os.state = "running"
    /\ cp.command = "cat"
    /\ Piped("stdin")
    /\ pipes.stdin # <<>>
    /\ HasRoom("stdout")
    /\ pipes' = ChildWrites("stdout", Head(pipes.stdin), [pipes EXCEPT !.stdin = Tail(@)])
    /\ UNCHANGED <<call, cp, os, exitListeners, waits, comm, bridge>>

\* the child writes a chunk to its stderr
ChildWriteErr ==
    /\ os.state = "running"
    /\ os.wroteErr < MaxErr
    /\ HasRoom("stderr")
    /\ \E c \in Chars : pipes' = ChildWrites("stderr", c, pipes)
    /\ os' = [os EXCEPT !.wroteErr = @ + 1]
    /\ UNCHANGED <<call, cp, exitListeners, waits, comm, bridge>>

\* the child exits of its own: cat once it has read end-of-input
ChildExit ==
    /\ os.state = "running"
    /\ cp.command = "cat" => StdinAtEof
    /\ \E code \in {"0", "1"} : os' = [os EXCEPT !.state = "exited", !.exitCode = code]
    /\ UNCHANGED <<call, cp, pipes, exitListeners, waits, comm, bridge>>

\* the child is ended by a signal
ChildKilled ==
    /\ os.state = "running"
    /\ os' = [os EXCEPT !.state = "exited", !.signalCode = "SIGTERM"]
    /\ UNCHANGED <<call, cp, pipes, exitListeners, waits, comm, bridge>>

(***************************************************************************)
(* The event loop: one action per callback, its promise reactions included.*)
(***************************************************************************)
\* the child's 'exit' event, emitted once
ExitEvent ==
    /\ os.state = "exited"
    /\ LET st == Emit(exitListeners, [cp |-> cp, waits |-> waits], os.exitCode, os.signalCode)
       IN  /\ cp' = st.cp
           /\ waits' = st.waits
           /\ comm' = Join(comm, st.waits, st.cp)
           /\ bridge' = BridgeReact(bridge, waits, st.waits)
    /\ os' = [os EXCEPT !.state = "reaped"]
    /\ UNCHANGED <<call, pipes, exitListeners>>

\* the pipeline writes the next chunk of the source to cp.stdin; the write fails
\* (EPIPE) once the child is gone
StdinWrite ==
    /\ comm.task.stdin = "pending"
    /\ comm.sent < Len(StdinChunks(comm.stdin))
    /\ IF os.state = "running"
       THEN /\ Len(pipes.stdin) < PipeCap
            /\ pipes' = [pipes EXCEPT !.stdin = Append(@, StdinChunks(comm.stdin)[comm.sent + 1])]
            /\ comm' = [comm EXCEPT !.sent = @ + 1]
       ELSE /\ pipes' = pipes
            /\ comm' = Join([comm EXCEPT !.task.stdin = "rejected"], waits, cp)
    /\ UNCHANGED <<call, cp, os, exitListeners, waits, bridge>>

\* the source is exhausted: the pipeline ends cp.stdin and its promise is fulfilled
StdinFinish ==
    /\ comm.task.stdin = "pending"
    /\ comm.sent = Len(StdinChunks(comm.stdin))
    /\ pipes' = [pipes EXCEPT !.stdinEnded = TRUE]
    /\ comm' = Join([comm EXCEPT !.task.stdin = "fulfilled", !.ended = Append(@, "pipeline")],
                     waits, cp)
    /\ UNCHANGED <<call, cp, os, exitListeners, waits, bridge>>

\* a drain that stops reading once communicate() has settled
DrainDataWhilePending(s) ==
    /\ comm.state = "pending"
    /\ comm.task[s] = "pending"
    /\ pipes[s] # <<>>
    /\ comm' = [comm EXCEPT !.buf[s] = Append(@, Head(pipes[s]))]
    /\ pipes' = [pipes EXCEPT ![s] = Tail(@)]
    /\ UNCHANGED <<call, cp, os, exitListeners, waits, bridge>>

\* a drain reads a chunk
DrainData(s) ==
    /\ comm.task[s] = "pending"
    /\ pipes[s] # <<>>
    /\ comm' = [comm EXCEPT !.buf[s] = Append(@, Head(pipes[s]))]
    /\ pipes' = [pipes EXCEPT ![s] = Tail(@)]
    /\ UNCHANGED <<call, cp, os, exitListeners, waits, bridge>>

\* a drain reads end-of-stream: the child has closed its end and the pipe is empty
DrainEnd(s) ==
    /\ comm.task[s] = "pending"
    /\ pipes[s] = <<>>
    /\ os.state # "running"
    /\ comm' = Join([comm EXCEPT !.task[s] = "fulfilled"], waits, cp)
    /\ UNCHANGED <<call, cp, os, pipes, exitListeners, waits, bridge>>

(***************************************************************************)
(* The bridge: the call that makes it, the stage before it, the streams of *)
(* the child under it and the consumer after it.  A handle is read by one  *)
(* reader: by communicate() or by a bridge.                                *)
(***************************************************************************)
\* makePipe(cp)
MakePipe ==
    /\ Spawned
    /\ bridge.state = "none"
    /\ comm.state = "idle"
    /\ LET r == Construct(cp, bridge, waits, exitListeners)
       IN  /\ bridge' = r.bridge
           /\ waits' = r.waits
           /\ exitListeners' = r.listeners
    /\ UNCHANGED <<call, cp, os, pipes, comm>>

\* the stage before the bridge writes its next chunk into it
UpstreamWrite ==
    /\ bridge.state = "open"
    /\ ~bridge.finishing
    /\ "stdin" \notin bridge.raised
    /\ bridge.written < Len(Upstream)
    /\ bridge' = WritableWrite(bridge, Upstream[bridge.written + 1])
    /\ UNCHANGED <<call, cp, os, pipes, exitListeners, waits, comm>>

\* the stage before the bridge ends it: end(), and _final if no write is left
UpstreamEnd ==
    /\ bridge.state = "open"
    /\ ~bridge.finishing
    /\ "stdin" \notin bridge.raised
    /\ bridge' = [bridge EXCEPT !.finishing = TRUE]
    /\ pipes' = [pipes EXCEPT !.stdinEnded = @ \/ FinalDue(bridge', cp)]
    /\ UNCHANGED <<call, cp, os, exitListeners, waits, comm>>

\* cp.stdin passes the chunk in flight to the child's pipe: the callback of the
\* write fires, and Writable goes on with the next chunk, or with _final
StdinWritten ==
    /\ bridge.state = "open"
    /\ bridge.inflight # <<>>
    /\ "stdin" \notin bridge.raised
    /\ os.state = "running"
    /\ Len(pipes.stdin) < PipeCap
    /\ LET called == [bridge EXCEPT !.inflight = <<>>, !.acked = @ + 1]
       IN  bridge' = IF called.writable # <<>>
                     THEN [BridgeWrite(called, Head(called.writable)) EXCEPT !.writable = Tail(@)]
                     ELSE called
    /\ pipes' = [pipes EXCEPT !.stdin = Append(@, bridge.inflight[1]),
                              !.stdinEnded = @ \/ FinalDue(bridge', cp)]
    /\ UNCHANGED <<call, cp, os, exitListeners, waits, comm>>

\* the write in flight fails because the child has gone (EPIPE): cp.stdin
\* raises 'error'
StdinError ==
    /\ bridge.state = "open"
    /\ bridge.inflight # <<>>
    /\ "stdin" \notin bridge.raised
    /\ os.state # "running"
    /\ bridge' = OnStreamError(bridge, "stdin", StdinFailure)
    /\ UNCHANGED <<call, cp, os, pipes, exitListeners, waits, comm>>

\* a read from the child's stdout fails: cp.stdout raises 'error'
StdoutError ==
    /\ bridge.state = "open"
    /\ "stdout" \notin bridge.raised
    /\ bridge.endWait = 0
    /\ bridge' = OnStreamError(bridge, "stdout", StdoutFailure)
    /\ UNCHANGED <<call, cp, os, pipes, exitListeners, waits, comm>>

\* cp.stdout, flowing, emits 'data'
BridgeData ==
    /\ bridge.state = "open"
    /\ "stdout.data" \in bridge.listeners
    /\ bridge.flowing
    /\ "stdout" \notin bridge.raised
    /\ pipes.stdout # <<>>
    /\ bridge' = OnData(bridge, Head(pipes.stdout))
    /\ pipes' = [pipes EXCEPT !.stdout = Tail(@)]
    /\ UNCHANGED <<call, cp, os, exitListeners, waits, comm>>

\* cp.stdout, flowing and read to its end, emits 'end': the bridge calls wait(cp)
BridgeStdoutEnd ==
    /\ bridge.state = "open"
    /\ "stdout.end" \in bridge.listeners
    /\ bridge.flowing
    /\ "stdout" \notin bridge.raised
    /\ bridge.endWait = 0
    /\ pipes.stdout = <<>>
    /\ os.state # "running"
    /\ LET w == WaitCall(cp, waits, exitListeners, "stdout end")
       IN  /\ waits' = w.waits
           /\ exitListeners' = w.listeners
           /\ bridge' = BridgeReact([bridge EXCEPT !.endWait = Len(waits) + 1], waits, w.waits)
    /\ UNCHANGED <<call, cp, os, pipes, comm>>

\* the consumer is ready (again): resume(), which reads
DownstreamResume ==
    /\ bridge.state = "open"
    /\ bridge.downstream = "paused"
    /\ LET b == [bridge EXCEPT !.downstream = "flowing"]
       IN  bridge' = IF ReadCallsRead(b, 0) THEN BridgeRead(b) ELSE b
    /\ UNCHANGED <<call, cp, os, pipes, exitListeners, waits, comm>>

\* the consumer is saturated: pause()
DownstreamPause ==
    /\ bridge.state = "open"
    /\ bridge.downstream = "flowing"
    /\ ~bridge.downstreamEnded
    /\ bridge' = [bridge EXCEPT !.downstream = "paused"]
    /\ UNCHANGED <<call, cp, os, pipes, exitListeners, waits, comm>>

\* the consumer, flowing, takes the next buffered chunk: read()
DownstreamRead ==
    /\ bridge.state = "open"
    /\ bridge.downstream = "flowing"
    /\ bridge.readable # <<>>
    /\ LET b == IF ReadCallsRead(bridge, 1) THEN BridgeRead(bridge) ELSE bridge
       IN  bridge' = [b EXCEPT !.delivered = Append(@, Head(b.readable)),
                               !.readable = Tail(@)]
    /\ UNCHANGED <<call, cp, os, pipes, exitListeners, waits, comm>>

\* the consumer, flowing, finds the buffer empty after push(null): 'end'
DownstreamEnd ==
    /\ bridge.state = "open"
    /\ bridge.downstream = "flowing"
    /\ bridge.readable = <<>>
    /\ bridge.pushedNull > 0
    /\ ~bridge.downstreamEnded
    /\ bridge' = [bridge EXCEPT !.downstreamEnded = TRUE]
    /\ UNCHANGED <<call, cp, os, pipes, exitListeners, waits, comm>>

\* a drain fails: the stream raises 'error' and getStream rejects
DrainError(s) ==
    /\ comm.task[s] = "pending"
    /\ comm' = Join([comm EXCEPT !.task[s] = "rejected"], waits, cp)
    /\ UNCHANGED <<call, cp, os, pipes, exitListeners, waits, bridge>>

Spawn == SpawnWith(Commands, OptionArgs(SpawnKeys, MaxOptKeys))

Execute == ExecuteWith(Commands, OptionArgs(ExecuteKeys, MaxOptKeys))

Communicate == CommunicateWith({"undefined"} \cup StdinValues)

DrainStdoutData == DrainData("stdout")

DrainStderrData == DrainData("stderr")

DrainStdoutEnd == DrainEnd("stdout")

DrainStderrEnd == DrainEnd("stderr")

Child == ChildProduce \/ ChildEcho \/ ChildWriteErr \/ ChildExit \/ ChildKilled

Loop ==
    \/ ExitEvent
    \/ StdinWrite
    \/ StdinFinish
    \/ DrainStdoutData
    \/ DrainStderrData
    \/ DrainStdoutEnd
    \/ DrainStderrEnd

Next == Spawn \/ Execute \/ Communicate \/ Wait \/ Child \/ Loop

Spec == Init /\ [][Next]_vars

(***************************************************************************)
(* Properties.                                                             *)
(***************************************************************************)
\* wait i put its callback on the 'exit' event (it was called while isAlive)
Registered(i) == \E k \in DOMAIN exitListeners : exitListeners[k] = [kind |-> "wait", id |-> i]

Settled(i) == waits[i].state # "pending"

\* the 'exit' event has been delivered
Terminated == Spawned /\ os.state = "reaped"

\* C1: once the 'exit' event has fired no wait is pending: a wait made while the
\* process was alive was settled by the event, and a wait made afterwards was
\* settled by the call itself, from the stored exitCode / signalCode.
C1_NoWaitPendingAfterExit ==
    Terminated => \A i \in DOMAIN waits : Settled(i)

\* an early and a late wait, both settled
C1_Witness ==
    /\ Terminated
    /\ \E i, j \in UserWaits : Registered(i) /\ ~Registered(j) /\ Settled(i) /\ Settled(j)

\* what a caller of wait i observes
Outcome(i) == <<waits[i].state, waits[i].exitCode, waits[i].signalCode, waits[i].error.name>>

\* C2: all the waits on a handle that have settled settled alike: all fulfilled
\* with the same exitCode and signalCode, or all rejected with a
\* ChildProcessError; a wait made after the exit agrees with one made before.
C2_WaitsAgree ==
    \A i, j \in DOMAIN waits :
        Settled(i) /\ Settled(j) =>
            /\ Outcome(i) = Outcome(j)
            /\ waits[i].state = "rejected" => waits[i].error.name = "ChildProcessError"

\* an early and a late wait, both fulfilled with exit code 1
C2_Witness ==
    \E i, j \in DOMAIN waits :
        /\ Registered(i) /\ ~Registered(j)
        /\ waits[i].state = "fulfilled" /\ waits[j].state = "fulfilled"
        /\ waits[j].exitCode = "1"

\* how the child ended violates the handle's policy: a non-zero exit code with
\* checkExitCode on, or a signal with checkSignalCode on
ViolatesPolicy ==
    \/ os.exitCode \notin {"null", "0"} /\ cp.options.checkExitCode = "true"
    \/ os.signalCode # "null" /\ cp.options.checkSignalCode = "true"

CommTasksFulfilled ==
    /\ comm.task.stdin = "fulfilled"
    /\ comm.task.stdout = "fulfilled"
    /\ comm.task.stderr = "fulfilled"

\* C3: after termination wait() is rejected, with a ChildProcessError, exactly
\* when the policy is violated, and is otherwise fulfilled with the raw exitCode
\* and signalCode; communicate() and execute() are rejected with a
\* ChildProcessError only when the policy is violated, are rejected whenever it
\* is, are rejected for no other reason than a failed stdin delivery, and are
\* otherwise fulfilled, once their streams are done, with the raw codes.
C3_PolicyDecidesOutcome ==
    Terminated =>
        /\ \A i \in DOMAIN waits :
            /\ waits[i].state = "rejected" <=> ViolatesPolicy
            /\ waits[i].state = "rejected" => waits[i].error.name = "ChildProcessError"
            /\ waits[i].state = "fulfilled" =>
                waits[i].exitCode = os.exitCode /\ waits[i].signalCode = os.signalCode
        /\ comm.state # "idle" =>
            /\ ViolatesPolicy => comm.state = "rejected"
            /\ ViolatesPolicy /\ comm.task.stdin # "rejected" =>
                comm.error.name = "ChildProcessError"
            /\ comm.state = "rejected" /\ comm.error.name = "ChildProcessError" => ViolatesPolicy
            /\ comm.state = "rejected" => ViolatesPolicy \/ comm.task.stdin = "rejected"
            /\ ~ViolatesPolicy /\ CommTasksFulfilled => comm.state = "fulfilled"
            /\ comm.state = "fulfilled" =>
                comm.result.exitCode = os.exitCode /\ comm.result.signalCode = os.signalCode

\* execute() fulfilled with exit code 1: the check was switched off
C3_Witness ==
    /\ call.fn = "execute"
    /\ comm.state = "fulfilled"
    /\ comm.result.exitCode = "1"
    /\ comm.result.signalCode = "null"

\* C4 as the specification states it: the wait whose callback the 'exit' event
\* runs fails if (exitCode != null and checkExitCode) or (signalCode != null
\* and checkSignalCode), and otherwise resolves.
C4_FailsOnNonNullCode ==
    \A i \in DOMAIN waits :
        Registered(i) /\ Settled(i) =>
            (waits[i].state = "rejected" <=>
                \/ os.exitCode # "null" /\ cp.options.checkExitCode = "true"
                \/ os.signalCode # "null" /\ cp.options.checkSignalCode = "true")

\* C4, amended: the wait whose callback the 'exit' event runs fails, with a
\* ChildProcessError carrying the handle, if (exitCode is neither null nor 0 and
\* checkExitCode) or (signalCode != null and checkSignalCode), and otherwise
\* resolves with the event's {exitCode, signalCode}.
C4_FailsOnNonZeroCode ==
    \A i \in DOMAIN waits :
        Registered(i) /\ Settled(i) =>
            IF ViolatesPolicy
            THEN /\ waits[i].state = "rejected"
                 /\ waits[i].error.name = "ChildProcessError"
                 /\ waits[i].error.exitCode = os.exitCode
                 /\ waits[i].error.signalCode = os.signalCode
            ELSE /\ waits[i].state = "fulfilled"
                 /\ waits[i].exitCode = os.exitCode
                 /\ waits[i].signalCode = os.signalCode

\* a registered wait fulfilled with exit code 0 although checkExitCode is on
C4_Witness ==
    \E i \in DOMAIN waits :
        /\ Registered(i)
        /\ waits[i].state = "fulfilled"
        /\ waits[i].exitCode = "0"
        /\ cp.options.checkExitCode = "true"

StatusFieldsConsistent ==
    IF cp.isAlive
    THEN cp.exitCode = "null" /\ cp.signalCode = "null"
    ELSE (cp.exitCode = "null") # (cp.signalCode = "null")

\* C5: while isAlive both exitCode and signalCode are null; once isAlive is
\* false exactly one of them is non-null; and isAlive never goes back to true,
\* whatever wait and communicate calls are made.
C5_StatusFields ==
    /\ [](Spawned => StatusFieldsConsistent)
    /\ [][Spawned /\ ~cp.isAlive => ~cp'.isAlive]_vars

\* a signalled process after every wait and a communicate
C5_Witness ==
    /\ Spawned
    /\ ~cp.isAlive
    /\ cp.signalCode = "SIGTERM"
    /\ Cardinality(UserWaits) = MaxWaits
    /\ comm.state # "idle"

\* C6: communicate() is fulfilled only after all four tasks: the stdin source
\* delivered whole and cp.stdin ended (or nothing to deliver), stdout and stderr
\* read to their end with nothing left in the pipes, and the status resolved.
C6_ResultAfterAllFour ==
    comm.state = "fulfilled" =>
        /\ CommTasksFulfilled
        /\ waits[comm.waitId].state = "fulfilled"
        /\ Terminated
        /\ ~NoSource(comm.stdin) /\ Piped("stdin") =>
            comm.sent = Len(StdinChunks(comm.stdin)) /\ pipes.stdinEnded
        /\ \A s \in {"stdout", "stderr"} : Piped(s) => pipes[s] = <<>>
        /\ Piped("stderr") => Len(comm.buf.stderr) = os.wroteErr
        /\ Piped("stdout") /\ cp.command = "prog" => Len(comm.buf.stdout) = os.wrote

\* cat fed "ab": the result holds the whole of both streams
C6_Witness ==
    /\ comm.state = "fulfilled"
    /\ cp.command = "cat"
    /\ comm.stdin = "ab"
    /\ comm.result.stdout.data = <<"a", "b">>
    /\ comm.buf.stderr # <<>>

\* C7 as the specification states it: communicate() is not rejected with a
\* policy failure while a drain is still pending.
C7_PolicyFailureAfterDrains ==
    comm.state = "rejected" /\ comm.error.name = "ChildProcessError" =>
        comm.task.stdout # "pending" /\ comm.task.stderr # "pending"

\* C7, amended: communicate() is rejected with the ChildProcessError as soon as
\* the status task fails the policy check, whether or not the drains have
\* finished, and with a ChildProcessError only once the status task has failed.
C7_PolicyFailureAtOnce ==
    comm.state # "idle" =>
        /\ waits[comm.waitId].state = "rejected" => comm.state = "rejected"
        /\ comm.state = "rejected" /\ comm.error.name = "ChildProcessError" =>
            waits[comm.waitId].state = "rejected" /\ Terminated

\* rejected for the policy while stdout still holds unread output
C7_Witness ==
    /\ comm.state = "rejected"
    /\ comm.error.name = "ChildProcessError"
    /\ comm.task.stdout = "pending"
    /\ pipes.stdout # <<>>

(***************************************************************************)
(* The calls that supply no stdin source, made on a child that ends only   *)
(* at end-of-input.  The operating system runs the child, so a cat that    *)
(* has read end-of-input does exit; the event loop delivers the 'exit'     *)
(* event and the stream events that are due.                               *)
(***************************************************************************)
NoSourceExecuteArgs ==
    {o \in OptionArgs(ExecuteKeys, MaxOptKeys) : NoSource(OptionOf(o, "stdin"))}

SpawnCat == SpawnWith({"cat"}, OptionArgs(SpawnKeys, MaxOptKeys))

ExecuteCatNoSource == ExecuteWith({"cat"}, NoSourceExecuteArgs)

CommunicateNoSource == CommunicateWith({"undefined", "null"})

NextNoSource ==
    \/ SpawnCat
    \/ ExecuteCatNoSource
    \/ CommunicateNoSource
    \/ Wait
    \/ ChildWriteErr
    \/ ChildExit
    \/ ChildKilled
    \/ ExitEvent
    \/ DrainStderrData
    \/ DrainStdoutEnd
    \/ DrainStderrEnd

Scheduling ==
    /\ WF_vars(ChildExit)
    /\ WF_vars(ExitEvent)
    /\ WF_vars(DrainStderrData)
    /\ WF_vars(DrainStdoutEnd)
    /\ WF_vars(DrainStderrEnd)

SpecNoSource == Init /\ [][NextNoSource]_vars /\ Scheduling

\* the child's stdin is, or will be once the pipe is read, at end-of-input
StdinClosed ==
    \/ StdioSlot(cp.options, 1) = "ignore"
    \/ Piped("stdin") /\ pipes.stdinEnded

ExecuteWithoutSource == call.fn = "execute" /\ NoSource(OptionOf(call.options, "stdin"))

IsTrimmed(data) ==
    data = <<>> \/ (Head(data) \notin Whitespace /\ data[Len(data)] \notin Whitespace)

\* C9: trimOutput defaults to true: when the call that spawned the process did
\* not set trimOutput (gave other options, or none at all) and the encoding is
\* a text encoding, communicate() returns stdout and stderr trimmed.
C9_TrimmedByDefault ==
    /\ comm.state = "fulfilled"
    /\ "trimOutput" \notin DOMAIN call.options.obj
    /\ cp.options.encoding # "null"
    => \A s \in {"stdout", "stderr"} :
            comm.result[s].type = "string" => IsTrimmed(comm.result[s].data)

\* the sinks a caller of execute() can name: a descriptor number, a stream, "ignore"
ExplicitSinks == SinkValues \ {"null"}

\* C10: execute() spawns with stdin 'pipe' if and only if options.stdin is
\* present and non-null, otherwise 'ignore'; and with stdout and stderr 'pipe'
\* unless the caller names a sink, which is then used unchanged.  (Stated for
\* the calls that leave the stdio option itself alone.)
C10_StdioDerivation ==
    call.fn = "execute" /\ "stdio" \notin DOMAIN call.options.obj =>
        /\ StdioSlot(cp.options, 1) =
            IF OptionOf(call.options, "stdin") \notin {"undefined", "null"} THEN "pipe" ELSE "ignore"
        /\ StdioSlot(cp.options, 2) =
            IF OptionOf(call.options, "stdout") \in ExplicitSinks
            THEN OptionOf(call.options, "stdout") ELSE "pipe"
        /\ StdioSlot(cp.options, 3) =
            IF OptionOf(call.options, "stderr") \in ExplicitSinks
            THEN OptionOf(call.options, "stderr") ELSE "pipe"

(***************************************************************************)
(* A process used as a stage of a pipeline: spawned, wrapped by makePipe,  *)
(* written to by the stage before it and read by the stage after it.       *)
(***************************************************************************)
PipeKeys == {"checkExitCode", "checkSignalCode", "stdio"}

SpawnStage == SpawnWith(Commands, OptionArgs(PipeKeys, MaxOptKeys))

Stage ==
    \/ UpstreamWrite
    \/ UpstreamEnd
    \/ StdinWritten
    \/ StdinError
    \/ StdoutError
    \/ BridgeData
    \/ BridgeStdoutEnd
    \/ DownstreamResume
    \/ DownstreamPause
    \/ DownstreamRead
    \/ DownstreamEnd

NextPipe ==
    \/ SpawnStage
    \/ MakePipe
    \/ Wait
    \/ ChildProduce
    \/ ChildEcho
    \/ ChildExit
    \/ ChildKilled
    \/ ExitEvent
    \/ Stage

SpecPipe == Init /\ [][NextPipe]_vars

\* C11: makePipe(cp) throws, within the call, if cp.stdout or cp.stdin is null,
\* and then it has put no listener on the streams or on the 'exit' event and
\* has started no wait; with both streams present it returns a bridge that
\* listens to the streams and has started its wait.
C11_ConstructorChecksFirst ==
    bridge.state # "none" =>
        /\ bridge.state = "failed" <=> (cp.stdout = "null" \/ cp.stdin = "null")
        /\ bridge.state = "failed" =>
            /\ bridge.thrown # ""
            /\ bridge.listeners = {}
            /\ bridge.ctorWait = 0 /\ bridge.endWait = 0
            /\ bridge.errors = <<>> /\ bridge.pushedNull = 0
            /\ \A i \in DOMAIN waits : waits[i].by = "user"
            /\ \A k \in DOMAIN exitListeners :
                exitListeners[k] = SpawnListener \/ waits[exitListeners[k].id].by = "user"
        /\ bridge.state = "open" =>
            /\ bridge.thrown = ""
            /\ bridge.listeners = BridgeListeners
            /\ bridge.ctorWait \in DOMAIN waits
            /\ waits[bridge.ctorWait].by = "makePipe"

\* makePipe has thrown for a handle that has a stdout and no stdin
C11_Witness ==
    /\ bridge.state = "failed"
    /\ cp.stdout # "null"
    /\ cp.stdin = "null"
    /\ cp.isAlive

\* the 'error' events of the bridge that carry a ChildProcessError
StatusErrors == {i \in DOMAIN bridge.errors : bridge.errors[i].name = "ChildProcessError"}

\* C12: a bridge emits 'error' with a ChildProcessError when the process has
\* ended with a non-zero exit code and checkExitCode is true, or with a signal
\* and checkSignalCode is true; it emits no such error while the process has
\* not ended, when the check concerned is off, or when the status is clean.
C12_StatusErrorFollowsPolicy ==
    bridge.state = "open" =>
        /\ Terminated => (StatusErrors # {} <=> ViolatesPolicy)
        /\ ~Terminated => StatusErrors = {}
        /\ \A i \in StatusErrors :
            /\ bridge.errors[i].exitCode = os.exitCode
            /\ bridge.errors[i].signalCode = os.signalCode

\* a bridge on a process that was killed: one 'error', carrying the signal
C12_Witness ==
    /\ bridge.state = "open"
    /\ Terminated
    /\ os.signalCode = "SIGTERM"
    /\ StatusErrors # {}
    /\ \A i \in StatusErrors : bridge.errors[i].signalCode = "SIGTERM"

\* the chunks that have reached the read side of the bridge
ReadSide == Len(bridge.readable) + Len(bridge.delivered)

\* C13: whenever push() reports saturation the bridge pauses cp.stdout, and
\* while cp.stdout stays paused no further chunk reaches the bridge; it is
\* resumed only by _read.  So a flowing cp.stdout means a buffer under the
\* threshold, and the buffer never holds more than the threshold (chunks are
\* one unit each: a buffer under the threshold before a push is at most at the
\* threshold after it), whatever the child writes in all.
C13_ReadSideBounded ==
    /\ [](bridge.state = "open" =>
            /\ Len(bridge.readable) <= BridgeHwm
            /\ bridge.flowing => Len(bridge.readable) < BridgeHwm)
    /\ [][bridge.state = "open" /\ ~bridge.flowing /\ ~bridge'.flowing =>
            /\ ReadSide' = ReadSide
            /\ pipes'.stdout \in {pipes.stdout} \cup {Append(pipes.stdout, c) : c \in Chars \cup {"a", "b"}}]_vars

\* cp.stdout paused on a full buffer while the child's next chunk waits in the pipe
C13_Witness ==
    /\ bridge.state = "open"
    /\ ~bridge.flowing
    /\ Len(bridge.readable) = BridgeHwm
    /\ pipes.stdout # <<>>
    /\ os.wrote = MaxOut

\* the chunks between the stage before the bridge and the consumer after it, the
\* oldest first
InTransit ==
    bridge.delivered \o bridge.readable \o pipes.stdout \o pipes.stdin
        \o bridge.inflight \o bridge.writable

\* C14: every chunk the child writes to its stdout reaches the consumer once
\* and in order, whatever the interleaving of the child's writes, of the
\* consumer's pauses and of its resumes: what was written into a bridge on cat
\* is, in order, what the consumer has got followed by what is still on its
\* way; of a child that writes of its own no chunk is missing or doubled; and
\* the bridge's end-of-stream comes after the child's last chunk.
C14_DeliveredOnceInOrder ==
    bridge.state = "open" =>
        /\ cp.command = "cat" => InTransit = SubSeq(Upstream, 1, bridge.written)
        /\ cp.command = "prog" => ReadSide + Len(pipes.stdout) = os.wrote
        /\ bridge.pushedNull > 0 => pipes.stdout = <<>> /\ os.state # "running"
        /\ bridge.downstreamEnded =>
            /\ bridge.readable = <<>>
            /\ cp.command = "prog" => Len(bridge.delivered) = os.wrote
            /\ cp.command = "cat" /\ bridge.raised = {} /\ os.signalCode = "null" =>
                bridge.delivered = SubSeq(Upstream, 1, bridge.written)

\* cat as a stage: the consumer has received the whole source, then 'end'
C14_Witness ==
    /\ bridge.state = "open"
    /\ cp.command = "cat"
    /\ bridge.delivered = Upstream
    /\ bridge.downstreamEnded

\* C15: the bridge calls push(null) only once cp.stdout has ended and the
\* process's status is known, in whichever order the two happen, and it does so
\* exactly once then, also when the status fails the policy check.
C15_EndAfterStdoutEndAndStatus ==
    bridge.state = "open" =>
        /\ bridge.pushedNull <= 1
        /\ bridge.pushedNull = 1 <=> (bridge.endWait # 0 /\ Terminated)
        /\ bridge.endWait # 0 => pipes.stdout = <<>>

\* cp.stdout ended before the exit, the wait made then was rejected, and
\* end-of-stream was pushed all the same
C15_Witness ==
    /\ bridge.state = "open"
    /\ bridge.pushedNull = 1
    /\ Registered(bridge.endWait)
    /\ waits[bridge.endWait].state = "rejected"

(***************************************************************************)
(* Every operation on one handle: spawn or execute, then wait, and either  *)
(* communicate or makePipe.                                                *)
(***************************************************************************)
ExecuteStage == ExecuteWith(Commands, OptionArgs(PipeKeys \cup {"stdin"}, MaxOptKeys))

NextAll ==
    \/ SpawnStage
    \/ ExecuteStage
    \/ Communicate
    \/ MakePipe
    \/ Wait
    \/ ChildProduce
    \/ ChildEcho
    \/ ChildExit
    \/ ChildKilled
    \/ ExitEvent
    \/ StdinWrite
    \/ StdinFinish
    \/ DrainStdoutData
    \/ DrainStdoutEnd
    \/ DrainStderrEnd
    \/ Stage

SpecAll == Init /\ [][NextAll]_vars

\* the status fields of a handle
StatusFields(h) == <<h.isAlive, h.exitCode, h.signalCode>>

\* C16: isAlive, exitCode and signalCode of a handle are written once, by the
\* handler spawn() put on the 'exit' event: a step changes them only if it is
\* the delivery of that event to a live handle, and it sets them to the
\* event's values; no call of wait, communicate, execute or makePipe, no
\* settling of their promises and no stream event changes them.
C16_StatusWrittenOnceByExitHandler ==
    [][Spawned /\ StatusFields(cp') # StatusFields(cp) =>
            /\ os.state = "exited" /\ os'.state = "reaped"
            /\ cp.isAlive
            /\ StatusFields(cp') = <<FALSE, os.exitCode, os.signalCode>>]_vars

\* after the exit: waits made before and after it, and a bridge that has
\* reported the status and pushed its end-of-stream
C16_Witness ==
    /\ Terminated
    /\ StatusFields(cp) = <<FALSE, "1", "null">>
    /\ Cardinality(UserWaits) = MaxWaits
    /\ \E i, j \in UserWaits : Registered(i) /\ ~Registered(j)
    /\ bridge.state = "open"
    /\ bridge.pushedNull = 1
    /\ StatusErrors # {}

\* C17: the handler of spawn() runs before every wait callback: whenever a
\* wait has settled the handle is not alive and holds the event's exitCode and
\* signalCode, and the ChildProcessError a callback has made from the handle
\* shows isAlive false and the event's codes, in whatever order the waits were
\* made.
C17_HandleUpdatedBeforeObservers ==
    \A i \in DOMAIN waits :
        /\ Settled(i) => StatusFields(cp) = <<FALSE, os.exitCode, os.signalCode>>
        /\ waits[i].state = "rejected" =>
            /\ StatusFields(waits[i].error) = <<FALSE, os.exitCode, os.signalCode>>
            /\ waits[i].error.message = IF os.exitCode # "null" THEN "exit code" ELSE "signal"

\* the wait of communicate() made before a user's wait, both on the 'exit'
\* event and both rejected with the handle as the event left it
C17_Witness ==
    \E i, j \in DOMAIN waits :
        /\ i < j
        /\ waits[i].by = "communicate" /\ waits[j].by = "user"
        /\ Registered(i) /\ Registered(j)
        /\ waits[i].state = "rejected" /\ waits[j].state = "rejected"
        /\ waits[j].error.exitCode = "1"

(***************************************************************************)
(* communicate() on a child that writes to both its outputs and may end    *)
(* badly.  The event loop delivers every event that is due.                *)
(***************************************************************************)
StatusKeys == {"checkExitCode", "checkSignalCode"}

SpawnProg == SpawnWith({"prog"}, OptionArgs(StatusKeys, MaxOptKeys))

ExecuteProg == ExecuteWith({"prog"}, OptionArgs(StatusKeys, MaxOptKeys))

NextDrain ==
    \/ SpawnProg
    \/ ExecuteProg
    \/ CommunicateNoSource
    \/ ChildProduce
    \/ ChildWriteErr
    \/ ChildExit
    \/ ChildKilled
    \/ ExitEvent
    \/ DrainStdoutData
    \/ DrainStderrData
    \/ DrainStdoutEnd
    \/ DrainStderrEnd

SpecDrain == Init /\ [][NextDrain]_vars /\ Scheduling /\ WF_vars(DrainStdoutData)

\* communicate() has been rejected because the status failed the policy check
RejectedForStatus ==
    comm.state = "rejected" /\ waits[comm.waitId].state = "rejected"

\* C18: the drains of communicate() do not stop when the status task fails:
\* each goes on reading until end-of-stream and then holds all the child wrote,
\* and a pipe that is full once communicate() runs is read again, so the child
\* is not left blocked on it.
C18_DrainsOutliveStatusFailure ==
    /\ RejectedForStatus ~> (comm.task.stdout = "fulfilled" /\ comm.task.stderr = "fulfilled")
    /\ \A s \in {"stdout", "stderr"} :
        (comm.state # "idle" /\ Piped(s) /\ Len(pipes[s]) = PipeCap) ~> (Len(pipes[s]) < PipeCap)
    /\ [](comm.task.stdout = "fulfilled" /\ Piped("stdout") =>
            Len(comm.buf.stdout) = os.wrote /\ pipes.stdout = <<>>)
    /\ [](comm.task.stderr = "fulfilled" /\ Piped("stderr") =>
            Len(comm.buf.stderr) = os.wroteErr /\ pipes.stderr = <<>>)

\* rejected for the exit code with output still in the pipe, and later drained
\* to the end all the same
C18_Witness ==
    /\ RejectedForStatus
    /\ comm.task.stdout = "fulfilled"
    /\ comm.task.stderr = "fulfilled"
    /\ Len(comm.buf.stdout) = MaxOut
    /\ Len(comm.buf.stderr) = MaxErr

\* the chunks written into the bridge that cp.stdin has not yet passed on, the
\* oldest first
Unwritten == bridge.inflight \o bridge.writable

\* the chunks the child's stdin pipe has taken: those still in it and, for cat,
\* those cat has copied to its stdout
TakenByChild ==
    Len(pipes.stdin) + IF cp.command = "cat" THEN Len(pipes.stdout) + ReadSide ELSE 0

\* C19: every chunk written to the bridge is passed to cp.stdin.write, one at a
\* time and in order, and the callback of a write fires only once the child's
\* stdin has taken the chunk: the callbacks fired never outnumber the chunks
\* taken.  When the writable side is finished cp.stdin is ended, whether or not
\* the process has exited, and only after every earlier write has called back.
C19_WriteSide ==
    bridge.state = "open" =>
        /\ bridge.acked + Len(Unwritten) = bridge.written
        /\ Len(bridge.inflight) <= 1
        /\ bridge.writable # <<>> => bridge.inflight # <<>>
        /\ Unwritten = SubSeq(Upstream, bridge.acked + 1, bridge.written)
        /\ bridge.acked = TakenByChild
        /\ pipes.stdinEnded => bridge.finishing /\ bridge.acked = bridge.written
        /\ bridge.finishing /\ Unwritten = <<>> => pipes.stdinEnded

\* both writes have called back and cp.stdin was ended while the child runs
C19_Witness ==
    /\ bridge.state = "open"
    /\ bridge.acked = Len(Upstream)
    /\ pipes.stdinEnded
    /\ os.state = "running"
    /\ cp.isAlive

\* the 'error' events of the bridge that carry err
Surfaced(err) == {i \in DOMAIN bridge.errors : bridge.errors[i] = err}

\* C20: an error raised by cp.stdin or by cp.stdout once the bridge exists is
\* emitted by the bridge as 'error', once, and the bridge emits no stream error
\* that was not raised.
C20_StreamErrorsSurface ==
    bridge.state = "open" =>
        /\ Cardinality(Surfaced(StdoutFailure)) = IF "stdout" \in bridge.raised THEN 1 ELSE 0
        /\ Cardinality(Surfaced(StdinFailure)) = IF "stdin" \in bridge.raised THEN 1 ELSE 0

\* a failed write to cp.stdin and a failed read of cp.stdout, both emitted
C20_Witness ==
    /\ bridge.state = "open"
    /\ bridge.raised = {"stdin", "stdout"}
    /\ Surfaced(StdinFailure) # {}
    /\ Surfaced(StdoutFailure) # {}

(***************************************************************************)
(* communicate() and execute() with streams that may fail: a write to      *)
(* cp.stdin after the child has gone, a failed read of cp.stdout or of     *)
(* cp.stderr.                                                              *)
(***************************************************************************)
SpawnAny == SpawnWith(Commands, OptionArgs(StatusKeys, MaxOptKeys))

ExecuteAny == ExecuteWith(Commands, OptionArgs(StatusKeys \cup {"stdin"}, MaxOptKeys))

DrainStdoutError == DrainError("stdout")

DrainStderrError == DrainError("stderr")

NextIO ==
    \/ SpawnAny
    \/ ExecuteAny
    \/ Communicate
    \/ Child
    \/ Loop
    \/ DrainStdoutError
    \/ DrainStderrError

SpecIO == Init /\ [][NextIO]_vars

\* the tasks of communicate() that an I/O failure has rejected
FailedStreams == {t \in {"stdin", "stdout", "stderr"} : comm.task[t] = "rejected"}

\* C21: an I/O failure of the stdin delivery or of a drain makes communicate()
\* and execute() fail: the call is rejected as soon as one of the three stream
\* tasks is, it is never fulfilled with a failed stream, and when the process
\* itself passes the policy check, exit code 0 included, the call is rejected
\* with the stream's error.
C21_StreamFailureFailsCall ==
    comm.state # "idle" =>
        /\ FailedStreams # {} => comm.state = "rejected"
        /\ comm.state = "fulfilled" => FailedStreams = {} /\ CommTasksFulfilled
        /\ FailedStreams # {} /\ Terminated /\ ~ViolatesPolicy => comm.error = StreamError

\* the child ended with exit code 0, the checks are on, and execute() was
\* rejected because the read of stdout failed
C21_Witness ==
    /\ call.fn = "execute"
    /\ Terminated
    /\ os.exitCode = "0"
    /\ cp.options.checkExitCode = "true"
    /\ waits[comm.waitId].state = "fulfilled"
    /\ FailedStreams = {"stdout"}
    /\ comm.state = "rejected"
    /\ comm.error = StreamError

\* C22: a bridge whose process fails the policy check emits the 'error' that
\* carries the ChildProcessError at most once, and has emitted it by the time
\* it calls push(null), whether cp.stdout ended before the exit or after it.
C22_StatusErrorBeforeEnd ==
    bridge.state = "open" =>
        /\ Cardinality(StatusErrors) <= 1
        /\ bridge.pushedNull > 0 =>
            /\ ViolatesPolicy => StatusErrors # {}
            /\ \A i \in StatusErrors : i <= bridge.errorsAtEnd

\* cp.stdout ended first: both waits of the bridge were settled by the same
\* 'exit' event, the error was emitted and end-of-stream pushed after it
C22_Witness ==
    /\ bridge.state = "open"
    /\ Registered(bridge.ctorWait)
    /\ Registered(bridge.endWait)
    /\ bridge.pushedNull = 1
    /\ StatusErrors # {}
    /\ bridge.errorsAtEnd = Len(bridge.errors)

\* C23: communicate() ends cp.stdin at most once, and by one path.  With no
\* source it ends it in the call itself and attaches no pipeline; with a source
\* only the pipeline ends it, once it has written every chunk of the source,
\* and not at all if a write fails; a handle with no stdin has nothing ended.
C23_StdinEndedOnceByOnePath ==
    comm.state # "idle" =>
        /\ Len(comm.ended) <= 1
        /\ pipes.stdinEnded <=> comm.ended # <<>>
        /\ ~Piped("stdin") => comm.ended = <<>> /\ comm.sent = 0
        /\ Piped("stdin") /\ NoSource(comm.stdin) =>
            comm.ended = <<"direct">> /\ comm.sent = 0 /\ comm.task.stdin = "fulfilled"
        /\ Piped("stdin") /\ ~NoSource(comm.stdin) =>
            IF comm.task.stdin = "fulfilled"
            THEN comm.ended = <<"pipeline">> /\ comm.sent = Len(StdinChunks(comm.stdin))
            ELSE comm.ended = <<>>

\* the pipeline has written "ab" to cat and then ended cp.stdin
C23_Witness ==
    /\ cp.command = "cat"
    /\ comm.stdin = "ab"
    /\ comm.sent = 2
    /\ comm.ended = <<"pipeline">>
    /\ pipes.stdinEnded

====
